---- MODULE Spec2Model ----
(***************************************************************************)
(* Consent synchronisation in axeptio/headless-cmp-client.                 *)
(*                                                                         *)
(* Three programs of the repository are modelled, each with its own        *)
(* specification over its own variables:                                   *)
(*   Spec     the offline queue of the mobile integration guide            *)
(*            (ConsentQueue, NetworkManager, AxeptioAPIClient and          *)
(*            ConsentProvider.submitConsent, src/unnamed/part_006);        *)
(*   SpecAuth the authenticated API client of the authentication guide     *)
(*            (AxeptioAuthenticatedClient, src/unnamed/part_005);          *)
(*   SpecApp  the React Native demo (src/examples/react-native/App.js).    *)
(*                                                                         *)
(* Every await of the source is a point where other callbacks may run, so  *)
(* an async function is one action per stretch of code between awaits.     *)
(***************************************************************************)
EXTENDS Integers, Sequences, FiniteSets, TLC

(***************************************************************************)
(* Bounds of the model.                                                    *)
(***************************************************************************)
MaxItems == 2
MaxDrains == 2
MaxEnq == 2
MaxTime == 2
MaxFetches == 4
MaxInits == 2
MaxOps == 2
MaxVendorCalls == 2

(***************************************************************************)
(* Inputs.                                                                 *)
(***************************************************************************)
Tokens == {"t1", "t2"}
Projects == {"p1"}
\* HTTP statuses a transport call can end with; NetFail is a rejected fetch
\* (network error or timeout).
NetFail == 0
Statuses == {NetFail, 201, 400, 401, 429, 500}
\* A 2xx body is JSON or plain text (App.js 240-246 expects both).
Bodies == {"json", "text"}

VARIABLES
    storage,      \* AsyncStorage value under "axeptio_consent_queue"
    drains,       \* running processQueue invocations
    enqs,         \* running enqueue invocations
    timers,       \* pending setTimeout callbacks of processQueue
    now,          \* Date.now(), in seconds
    connected,    \* NetInfo state
    nextId,       \* generateUniqueId()
    handed,       \* observer: ids whose enqueue() has resolved
    accepted,     \* observer: ids the server answered with a 2xx
    rejected      \* observer: ids the server answered with 401 or another 4xx

qvars == <<storage, drains, enqs, timers, now, connected, nextId,
           handed, accepted, rejected>>

\* The authenticated API client (part_005).
VARIABLES
    keychain,     \* Keychain credentials of service "AxeptioAPI" ("none": null)
    request,      \* the makeRequest call in progress
    lastResult,   \* what the last makeRequest call ended with
    reaction,     \* what the calling code did with it (part_005 394-408)
    authRequired, \* onAuthenticationRequired has been called
    fetches       \* observer: number of fetch calls issued

avars == <<keychain, request, lastResult, reaction, authRequired, fetches>>

\* The React Native demo (App.js).
VARIABLES
    ui,           \* the component's state (useState, App.js 54-71)
    disk,         \* AsyncStorage: @axeptio_project_id, @axeptio_environment
    loader,       \* the loadSettings call of the mount effect
    inits,        \* running initializeApp calls
    ops,          \* running button handlers
    identity      \* observer: the user token the app resolved last

appvars == <<ui, disk, loader, inits, ops, identity>>

\* The vendor list of the demo (App.js 57-59, 304-363).
VARIABLES
    vendors,         \* the preference map: its keys and the accepted ones
    apiVendors,      \* the keys of the vendors the consent modal lists
    vendorsLoading,  \* a fetchVendors call has not finished
    vendorCalls      \* running fetchVendors calls

vvars == <<vendors, apiVendors, vendorsLoading, vendorCalls>>

vars == <<qvars, avars, appvars, vvars>>

notQueue == <<avars, appvars, vvars>>
notAuth == <<qvars, appvars, vvars>>
notApp == <<qvars, avars, vvars>>
notVendors == <<qvars, avars, appvars>>

Ids == 1..MaxItems
DrainIds == 1..MaxDrains
EnqIds == 1..MaxEnq

(***************************************************************************)
(* JSON.stringify / JSON.parse of a QueuedConsent[]: the stored string     *)
(* lists, per entry, the values of its properties in declaration order.    *)
(***************************************************************************)
stringify(queue) ==
    [i \in 1..Len(queue) |->
        <<queue[i].id, queue[i].consent, queue[i].projectId,
          queue[i].timestamp, queue[i].retryCount, queue[i].maxRetries>>]

parse(json) ==
    [i \in 1..Len(json) |->
        [id |-> json[i][1], consent |-> json[i][2], projectId |-> json[i][3],
         timestamp |-> json[i][4], retryCount |-> json[i][5],
         maxRetries |-> json[i][6]]]

\* AsyncStorage.getItem returns null (<<>>) or the stored string (<<s>>).
getQueue == IF storage = <<>> THEN <<>> ELSE parse(storage[1])

setItem(value) == <<value>>

(***************************************************************************)
(* AxeptioAPIClient.makeRequest (part_006 495-522): what the call ends     *)
(* with, given the transport's status and body and the NetInfo state read  *)
(* in the catch block.  "ok" resolves; anything else is the thrown error.  *)
(***************************************************************************)
responseOk(status) == status >= 200 /\ status <= 299

makeRequest(status, body, isConnected) ==
    IF status # NetFail /\ responseOk(status) /\ body = "json"
    THEN "ok"
    ELSE IF ~isConnected THEN "NETWORK_OFFLINE"
    ELSE IF status = NetFail THEN "Network error"
    ELSE IF responseOk(status) THEN "SyntaxError"
    ELSE "HTTP error"

\* Math.pow(2, retryCount) * 1000 ms, in seconds.
RECURSIVE pow2(_)
pow2(n) == IF n = 0 THEN 1 ELSE 2 * pow2(n - 1)

\* The delay computed from the count before line 792 increments it.
backoffDelayBeforeIncrement(retryCount) == pow2(retryCount - 1)

backoffDelay(retryCount) == pow2(retryCount)

QueuedConsent(id, consent, projectId) ==
    [id |-> id, consent |-> consent, projectId |-> projectId,
     timestamp |-> now, retryCount |-> 0, maxRetries |-> 3]

IdleDrain == [pc |-> "idle", queue |-> <<>>, idx |-> 0, failedItems |-> <<>>,
              payload |-> <<>>]
IdleEnq == [pc |-> "idle", queue |-> <<>>]

\* Queues a previous run of the program can have left in storage: nothing,
\* or one entry that has failed 0, 1 or 2 times.
StoredAtStart ==
    {<<>>} \cup
    {setItem(stringify(<<[id |-> 1, consent |-> c, projectId |-> p,
                          timestamp |-> 0, retryCount |-> r,
                          maxRetries |-> 3]>>)) :
        c \in Tokens, p \in Projects, r \in 0..2}

IdleRequest == [pc |-> "idle", bearer |-> "none"]

(***************************************************************************)
(* App.js: constants and the state after mount.                            *)
(***************************************************************************)
Null == "null"
DEFAULT_PROJECT_ID == "67fcdb2b52ab9a99a5865f4d"
DEFAULT_ENVIRONMENT == "staging"
\* The keys of ENVIRONMENTS the settings form is used with here.
EnvironmentKeys == {"staging"}
\* What the user can type into the project id field.
ProjectIdInputs == {DEFAULT_PROJECT_ID, "other", " "}
\* Tokens the token endpoint can answer with.
UserTokens == {"u1", "u2"}

InitIds == 1..MaxInits
OpIds == 1..MaxOps

InitialUi ==
    [modalVisible |-> FALSE, settingsModalVisible |-> FALSE,
     loading |-> FALSE, vendorsLoading |-> TRUE,
     consentStatus |-> "Not Set", lastConsentId |-> Null,
     lastConsentToken |-> Null, currentUserToken |-> Null, configId |-> Null,
     projectId |-> DEFAULT_PROJECT_ID, environment |-> DEFAULT_ENVIRONMENT,
     tempProjectId |-> DEFAULT_PROJECT_ID,
     tempEnvironment |-> DEFAULT_ENVIRONMENT]

IdleInit == [pc |-> "idle", projectId |-> Null, environment |-> Null]
IdleOp == [kind |-> "none", pc |-> "idle", projectId |-> Null,
           environment |-> Null, configId |-> Null, token |-> Null,
           response |-> <<>>]
IdleLoader == [pc |-> "idle", savedProjectId |-> Null]

\* initializeApp as the effect of lines 116-136 starts it: it runs with the
\* projectId and environment of the render it was created in.
initializeApp(projectId, environment) ==
    [pc |-> "config", projectId |-> projectId, environment |-> environment]

\* The two mount effects (110-113, 116-136) have run.
MountedLoader == [pc |-> "projectId", savedProjectId |-> Null]
MountedInits ==
    [i \in InitIds |->
        IF i = 1 THEN initializeApp(DEFAULT_PROJECT_ID, DEFAULT_ENVIRONMENT)
        ELSE IdleInit]
NoResult == [name |-> "none", message |-> <<>>, retryAfter |-> <<>>]
NoReaction == [action |-> "none", arg |-> <<>>]

\* The queue of part_006 when the process starts: what an earlier run left in
\* AsyncStorage, nothing running.
QueueInit ==
    /\ storage \in StoredAtStart
    /\ drains = [d \in DrainIds |-> IdleDrain]
    /\ enqs = [e \in EnqIds |-> IdleEnq]
    /\ timers = {}
    /\ now = 0
    /\ connected \in BOOLEAN
    /\ nextId = Len(getQueue) + 1
    /\ handed = {getQueue[i].id : i \in 1..Len(getQueue)}
    /\ accepted = {}
    /\ rejected = {}

\* A program that never touches the queue: the key @axeptio_consent_queue is
\* absent.
QueueUnused ==
    /\ storage = <<>>
    /\ drains = [d \in DrainIds |-> IdleDrain]
    /\ enqs = [e \in EnqIds |-> IdleEnq]
    /\ timers = {}
    /\ now = 0
    /\ connected = TRUE
    /\ nextId = 1
    /\ handed = {}
    /\ accepted = {}
    /\ rejected = {}

\* The authenticated client of part_005 after construction (209-213).
AuthInit ==
    /\ keychain = "none"
    /\ request = IdleRequest
    /\ lastResult = NoResult
    /\ reaction = NoReaction
    /\ authRequired = FALSE
    /\ fetches = 0

\* App.js after mount.
AppInit ==
    /\ ui = InitialUi
    /\ disk = [projectId |-> Null, environment |-> Null]
    /\ loader = MountedLoader
    /\ inits = MountedInits
    /\ ops = [o \in OpIds |-> IdleOp]
    /\ identity = Null

\* The keys of VENDORS (App.js 46-51).
VENDORS == {"google_analytics", "facebook_pixel", "mixpanel"}
\* Keys `${vendor.id} (${vendor.title || vendor.name})` of vendors the
\* service can return (line 324).
ServiceVendors == {"1 (Stripe)", "2 (Hotjar)"}
VendorCallIds == 1..MaxVendorCalls

\* useState of lines 57-59; initializeApp has not reached fetchVendors yet.
VendorsInit ==
    /\ vendors = [keys |-> {}, accepted |-> {}]
    /\ apiVendors = VENDORS
    /\ vendorsLoading = TRUE
    /\ vendorCalls = [c \in VendorCallIds |-> "idle"]

Init == QueueInit /\ AuthInit /\ AppInit /\ VendorsInit

InitAuth == QueueUnused /\ AuthInit /\ AppInit /\ VendorsInit

InitApp == QueueUnused /\ AuthInit /\ AppInit /\ VendorsInit

InitVendorList == QueueUnused /\ AuthInit /\ AppInit /\ VendorsInit

(***************************************************************************)
(* ConsentQueue.enqueue (part_006 768-781).                                *)
(***************************************************************************)
\* Lines 769-778: build the entry, then read the stored queue.
EnqueueRead(e, consent, projectId) ==
    /\ enqs[e].pc = "idle"
    /\ nextId <= MaxItems
    /\ enqs' = [enqs EXCEPT ![e] =
                  [pc |-> "write",
                   queue |-> Append(getQueue,
                                    QueuedConsent(nextId, consent, projectId))]]
    /\ nextId' = nextId + 1
    /\ UNCHANGED <<storage, drains, timers, now, connected,
                   handed, accepted, rejected>>
    /\ UNCHANGED notQueue

\* Line 780: the write completes and enqueue resolves.
EnqueueWrite(e) ==
    /\ enqs[e].pc = "write"
    /\ storage' = setItem(stringify(enqs[e].queue))
    /\ handed' = handed \cup {enqs[e].queue[Len(enqs[e].queue)].id}
    /\ enqs' = [enqs EXCEPT ![e] = IdleEnq]
    /\ UNCHANGED <<drains, timers, now, connected, nextId, accepted, rejected>>
    /\ UNCHANGED notQueue

(***************************************************************************)
(* ConsentQueue.processQueue (part_006 783-805).                           *)
(***************************************************************************)
\* After the loop (line 804) JSON.stringify(failedItems) is evaluated in the
\* same turn; the storage write itself completes later.
afterItem(dr) ==
    IF dr.idx < Len(dr.queue)
    THEN [dr EXCEPT !.idx = dr.idx + 1]
    ELSE [dr EXCEPT !.pc = "write", !.payload = stringify(dr.failedItems)]

\* Lines 784-789: read the queue and issue the first request.
startDrain(d) ==
    drains' = [drains EXCEPT ![d] =
        afterItem([pc |-> "await", queue |-> getQueue, idx |-> 0,
                   failedItems |-> <<>>, payload |-> <<>>])]

\* Lines 789-801: the request for queue[idx] ends.
DrainResponse(d, status, body) ==
    LET dr == drains[d]
        item == dr.queue[dr.idx]
        result == makeRequest(status, body, connected)
        failed == [item EXCEPT !.retryCount = item.retryCount + 1]
    IN
    /\ dr.pc = "await"
    /\ responseOk(status) => connected
    /\ IF result = "ok"
       THEN /\ drains' = [drains EXCEPT ![d] = afterItem(dr)]
            /\ timers' = timers
       ELSE /\ drains' = [drains EXCEPT ![d] =
                   afterItem([dr EXCEPT !.queue[dr.idx] = failed])]
            /\ timers' = IF failed.retryCount < failed.maxRetries
                         THEN timers \cup
                              {[d |-> d, item |-> failed,
                                due |-> now + backoffDelay(failed.retryCount)]}
                         ELSE timers
    /\ accepted' = IF responseOk(status) THEN accepted \cup {item.id}
                   ELSE accepted
    /\ rejected' = IF status \in 400..499 /\ status # 429
                   THEN rejected \cup {item.id} ELSE rejected
    /\ UNCHANGED <<storage, enqs, now, connected, nextId, handed>>
    /\ UNCHANGED notQueue

\* Lines 796-798: a retry timer fires and pushes its item to the
\* failedItems array of the invocation that set it.
TimerFire(t) ==
    /\ t \in timers
    /\ now >= t.due
    /\ timers' = timers \ {t}
    /\ drains' = [drains EXCEPT ![t.d].failedItems = Append(@, t.item)]
    /\ UNCHANGED <<storage, enqs, now, connected, nextId, handed, accepted, rejected>>
    /\ UNCHANGED notQueue

\* Line 804: the write of the stringified failedItems completes and the
\* invocation returns.  Its timers that are still pending will push to an
\* array nothing reads any more; they leave the model here.
DrainWrite(d) ==
    /\ drains[d].pc = "write"
    /\ storage' = setItem(drains[d].payload)
    /\ drains' = [drains EXCEPT ![d] = IdleDrain]
    /\ timers' = {t \in timers : t.d # d}
    /\ UNCHANGED <<enqs, now, connected, nextId, handed, accepted, rejected>>
    /\ UNCHANGED notQueue

(***************************************************************************)
(* NetworkManager (part_006 819-844): every NetInfo event that reports a   *)
(* connection starts processQueue.                                         *)
(***************************************************************************)
NetInfoEvent(isConnected) ==
    /\ connected' = isConnected
    /\ IF isConnected
       THEN \E d \in DrainIds :
               /\ drains[d].pc = "idle"
               /\ \A d2 \in DrainIds : d2 < d => drains[d2].pc # "idle"
               /\ startDrain(d)
       ELSE drains' = drains
    /\ UNCHANGED <<storage, enqs, timers, now, nextId, handed, accepted, rejected>>
    /\ UNCHANGED notQueue

\* Time passes.
Tick ==
    /\ now < MaxTime
    /\ now' = now + 1
    /\ UNCHANGED <<storage, drains, enqs, timers, connected, nextId,
                   handed, accepted, rejected>>
    /\ UNCHANGED notQueue

\* The process is killed and started again: memory is lost, storage stays.
Restart ==
    /\ drains' = [d \in DrainIds |-> IdleDrain]
    /\ enqs' = [e \in EnqIds |-> IdleEnq]
    /\ timers' = {}
    /\ UNCHANGED <<storage, now, connected, nextId, handed, accepted, rejected>>
    /\ UNCHANGED notQueue

Next ==
    \/ \E e \in EnqIds, c \in Tokens, p \in Projects : EnqueueRead(e, c, p)
    \/ \E e \in EnqIds : EnqueueWrite(e)
    \/ \E d \in DrainIds, s \in Statuses, b \in Bodies : DrainResponse(d, s, b)
    \/ \E t \in timers : TimerFire(t)
    \/ \E d \in DrainIds : DrainWrite(d)
    \/ \E c \in BOOLEAN : NetInfoEvent(c)
    \/ Tick
    \/ Restart

Spec == Init /\ [][Next]_vars

(***************************************************************************)
(* The authenticated API client (part_005).  SecureTokenStorage declares   *)
(* its methods static while the client and the guide's tests call them on  *)
(* an instance (part_005 212-216, 274, 448-454); the calls are resolved to *)
(* the declared methods.  null is <<>>, a value v is <<v>>.                 *)
(***************************************************************************)
ApiTokens == {"k1", "k2"}
\* Retry-After header of a 429 response, in seconds; <<>> when absent.
RetryAfterHeaders == {<<>>, <<1>>, <<30>>}

\* SecureTokenStorage.storeToken (161-173): false when the keychain throws.
storeToken(token, keychainOk) == IF keychainOk THEN token ELSE keychain

\* SecureTokenStorage.getToken (175-185): null when absent or on error.
getToken(keychainOk) == IF keychainOk THEN keychain ELSE "none"

\* SecureTokenStorage.deleteToken (187-195).
deleteToken(keychainOk) == IF keychainOk THEN "none" ELSE keychain

\* Error classes (378-392).
AuthenticationError(message) ==
    [name |-> "AuthenticationError", message |-> message, retryAfter |-> <<>>]

RateLimitError(message, retryAfter) ==
    [name |-> "RateLimitError", message |-> message, retryAfter |-> retryAfter]

OtherError(name) == [name |-> name, message |-> <<>>, retryAfter |-> <<>>]

\* The message of line 251 carries the header value; the constructor's second
\* parameter is not passed and takes its default, null (line 387).
rateLimited(retryAfterHeader) == RateLimitError(retryAfterHeader, <<>>)

\* The caller's catch block (394-408).
react(error) ==
    IF error.name = "ok" THEN NoReaction
    ELSE IF error.name = "AuthenticationError"
    THEN [action |-> "showLoginScreen", arg |-> <<>>]
    ELSE IF error.name = "RateLimitError"
    THEN [action |-> "scheduleRetry", arg |-> error.retryAfter]
    ELSE [action |-> "showErrorMessage", arg |-> <<>>]

StoreToken(token, keychainOk) ==
    /\ keychain' = storeToken(token, keychainOk)
    /\ UNCHANGED <<request, lastResult, reaction, authRequired, fetches>>
    /\ UNCHANGED notAuth

\* makeRequest up to the fetch (228-239): getAuthHeaders (215-226) throws
\* AuthenticationError when no token is stored.
MakeRequest(keychainOk) ==
    /\ request.pc = "idle"
    /\ IF getToken(keychainOk) = "none"
       THEN /\ lastResult' = AuthenticationError(<<"No API token available">>)
            /\ reaction' = react(lastResult')
            /\ UNCHANGED <<request, fetches>>
       ELSE /\ fetches < MaxFetches
            /\ request' = [pc |-> "fetch", bearer |-> getToken(keychainOk)]
            /\ fetches' = fetches + 1
            /\ lastResult' = NoResult
            /\ reaction' = NoReaction
    /\ UNCHANGED <<keychain, authRequired>>
    /\ UNCHANGED notAuth

\* makeRequest from the response on (241-269), then the caller's catch.
classify(status, retryAfterHeader, body) ==
    IF status = NetFail THEN OtherError("NetworkError")
    ELSE IF status = 401 THEN AuthenticationError(<<"Authentication failed">>)
    ELSE IF status = 429 THEN rateLimited(retryAfterHeader)
    ELSE IF ~responseOk(status) THEN OtherError("APIError")
    ELSE IF body = "json" THEN OtherError("ok")
    ELSE OtherError("NetworkError")

\* handleAuthenticationError (272-279) runs before the 401 is thrown.
RequestDone(status, retryAfterHeader, body, keychainOk) ==
    /\ request.pc = "fetch"
    /\ (retryAfterHeader # <<>>) => status = 429
    /\ keychain' = IF status = 401 THEN deleteToken(keychainOk) ELSE keychain
    /\ authRequired' = (authRequired \/ status = 401)
    /\ lastResult' = classify(status, retryAfterHeader, body)
    /\ reaction' = react(lastResult')
    /\ request' = IdleRequest
    /\ UNCHANGED fetches
    /\ UNCHANGED notAuth

NextAuth ==
    \/ \E t \in ApiTokens, ok \in BOOLEAN : StoreToken(t, ok)
    \/ \E ok \in BOOLEAN : MakeRequest(ok)
    \/ \E s \in Statuses, h \in RetryAfterHeaders, b \in Bodies,
          ok \in BOOLEAN : RequestDone(s, h, b, ok)

SpecAuth == InitAuth /\ [][NextAuth]_vars

(***************************************************************************)
(* The React Native demo (App.js).  A handler is a closure over the state  *)
(* of the render it was created in: what it reads after an await is what   *)
(* the state was when it was called, while its set...() calls act on the   *)
(* current state.  Updates made in one stretch of code are rendered        *)
(* together (React 18, README 196).                                        *)
(***************************************************************************)
\* Body of a configuration response (291-292): JSON with defaultConfigId,
\* JSON without it, or text that is not JSON.
ConfigPayloads == {"id", "noid", "text"}
\* Answers to the configuration request: a status and a body, or no answer.
ConfigStatuses == {NetFail, 200, 500}
ConfigResponses ==
    {r \in ConfigStatuses \X ConfigPayloads : r[1] = NetFail => r[2] = "text"}
\* Outcomes of the vendors request (317-361).
VendorOutcomes == {"ok", "malformed", "status", "error"}
\* Outcomes of the token request (379-390): a token, or a failure.
TokenOutcomes == UserTokens \cup {"notoken", "error"}
\* Body of a consent response: JSON with an id, JSON without one, or text
\* that is not JSON.
ConsentBodies == {"id", "noid", "text"}
\* The record id the service assigns when its response carries one.
ServerIds == {"abc"}

\* The defaultConfigId the service holds for a project and environment.
defaultConfigId(projectId, environment) ==
    IF projectId = DEFAULT_PROJECT_ID
    THEN IF environment = "staging" THEN "cfg-default-staging"
         ELSE "cfg-default-production"
    ELSE IF environment = "staging" THEN "cfg-other-staging"
         ELSE "cfg-other-production"

\* fetchConfiguration without the test of response.ok.
fetchConfigurationAnyStatus(status, payload, projectId, environment) ==
    IF status # NetFail /\ payload = "id"
    THEN defaultConfigId(projectId, environment)
    ELSE Null

\* fetchConfiguration's return value (278-301): the id when the status is
\* 2xx and the body carries defaultConfigId; a thrown error (no answer, a
\* body that does not parse) is caught and gives null like the rest.
fetchConfiguration(status, payload, projectId, environment) ==
    IF status # NetFail /\ responseOk(status) /\ payload = "id"
    THEN defaultConfigId(projectId, environment)
    ELSE Null

\* fetchToken's return value (366-395); Null stands for the thrown error.
fetchToken(outcome) == IF outcome \in UserTokens THEN outcome ELSE Null

\* Lines 250-255.
consentId(body) == IF body = "id" THEN "abc" ELSE "saved"

\* The status card (617-621): the line "ID: ..." and what it shows.
statusCardId == IF ui.lastConsentId # Null THEN <<ui.lastConsentId>> ELSE <<>>

trim(text) == IF text = " " THEN "" ELSE text

noModal == ~ui.modalVisible /\ ~ui.settingsModalVisible

freeSlot(tasks) ==
    CHOOSE i \in DOMAIN tasks :
        /\ tasks[i].pc = "idle"
        /\ \A j \in DOMAIN tasks : j < i => tasks[j].pc # "idle"

hasFree(tasks) == \E i \in DOMAIN tasks : tasks[i].pc = "idle"

\* The effect of lines 116-136 after a render that changed projectId or
\* environment.
depsChanged(newUi) ==
    <<newUi.projectId, newUi.environment>> # <<ui.projectId, ui.environment>>

runEffect(newUi, tasks) ==
    IF depsChanged(newUi) /\ newUi.projectId # "" /\ newUi.environment # ""
    THEN [tasks EXCEPT ![freeSlot(tasks)] =
             initializeApp(newUi.projectId, newUi.environment)]
    ELSE tasks

\* loadSettings (78-96), first read.
LoadProjectId(storageOk) ==
    /\ loader.pc = "projectId"
    /\ loader' = IF storageOk
                 THEN [pc |-> "environment", savedProjectId |-> disk.projectId]
                 ELSE IdleLoader
    /\ UNCHANGED <<ui, disk, inits, ops, identity>>
    /\ UNCHANGED notApp

\* loadSettings, second read and lines 83-90.
LoadEnvironment(storageOk) ==
    LET withProject ==
            IF loader.savedProjectId # Null
            THEN [ui EXCEPT !.projectId = loader.savedProjectId,
                            !.tempProjectId = loader.savedProjectId]
            ELSE ui
        loaded ==
            IF disk.environment # Null
            THEN [withProject EXCEPT !.environment = disk.environment,
                                     !.tempEnvironment = disk.environment]
            ELSE withProject
        newUi == IF storageOk THEN loaded ELSE ui
    IN
    /\ loader.pc = "environment"
    /\ depsChanged(newUi) => hasFree(inits)
    /\ ui' = newUi
    /\ inits' = runEffect(newUi, inits)
    /\ loader' = IdleLoader
    /\ UNCHANGED <<disk, ops, identity>>
    /\ UNCHANGED notApp

\* initializeApp, line 118: the configuration answer; fetchVendors starts
\* (line 305).
InitConfiguration(i, status, payload) ==
    LET id == fetchConfiguration(status, payload, inits[i].projectId,
                                 inits[i].environment) IN
    /\ inits[i].pc = "config"
    /\ ui' = [ui EXCEPT !.configId = IF id # Null THEN id ELSE @,
                        !.vendorsLoading = TRUE]
    /\ inits' = [inits EXCEPT ![i].pc = "vendors"]
    /\ UNCHANGED <<disk, loader, ops, identity>>
    /\ UNCHANGED notApp

\* initializeApp, line 119: the vendors answer (every path of 317-361 ends
\* with vendorsLoading false); fetchToken starts.
InitVendors(i, outcome) ==
    /\ inits[i].pc = "vendors"
    /\ ui' = [ui EXCEPT !.vendorsLoading = FALSE]
    /\ inits' = [inits EXCEPT ![i].pc = "token"]
    /\ UNCHANGED <<disk, loader, ops, identity>>
    /\ UNCHANGED notApp

\* initializeApp, lines 122-129: the token answer.
InitToken(i, outcome) ==
    LET token == fetchToken(outcome) IN
    /\ inits[i].pc = "token"
    /\ ui' = [ui EXCEPT !.currentUserToken = IF token # Null THEN token ELSE @]
    /\ identity' = IF token # Null THEN token ELSE identity
    /\ inits' = [inits EXCEPT ![i] = IdleInit]
    /\ UNCHANGED <<disk, loader, ops>>
    /\ UNCHANGED notApp

\* "Manage Consent" (634-637) and the modal's Cancel / backdrop (681-690).
OpenConsentModal ==
    /\ noModal /\ ~ui.loading
    /\ ui' = [ui EXCEPT !.modalVisible = TRUE]
    /\ UNCHANGED <<disk, loader, inits, ops, identity>>
    /\ UNCHANGED notApp

CloseConsentModal ==
    /\ ui.modalVisible /\ ~ui.loading
    /\ ui' = [ui EXCEPT !.modalVisible = FALSE]
    /\ UNCHANGED <<disk, loader, inits, ops, identity>>
    /\ UNCHANGED notApp

\* submitConsent without lines 180-192: the consent is built and posted with
\* whatever token the state holds.
afterConfigurationSkipsToken(op, configId) ==
    [op EXCEPT !.pc = "post", !.configId = configId]

\* submitConsent from line 180 on, once the configuration id is known: ask
\* for a token if there is none, else build the consent, remember its token
\* (223) and post it.
afterConfiguration(op, configId) ==
    IF op.token = Null
    THEN [op EXCEPT !.pc = "token", !.configId = configId]
    ELSE [op EXCEPT !.pc = "post", !.configId = configId]

\* submitConsent (166-178), called by the modal's save button (765-766).
SubmitConsent ==
    LET o == freeSlot(ops)
        op == [kind |-> "submit", pc |-> "config",
               projectId |-> ui.projectId, environment |-> ui.environment,
               configId |-> ui.configId, token |-> ui.currentUserToken,
               response |-> <<>>]
        next == IF ui.configId = Null THEN op
                ELSE afterConfiguration(op, ui.configId)
    IN
    /\ ui.modalVisible /\ ~ui.loading /\ ~ui.vendorsLoading
    /\ hasFree(ops)
    /\ ops' = [ops EXCEPT ![o] = next]
    /\ ui' = [ui EXCEPT !.loading = TRUE,
                        !.lastConsentToken =
                            IF next.pc = "post" THEN next.token ELSE @]
    /\ UNCHANGED <<disk, loader, inits, identity>>
    /\ UNCHANGED notApp

\* submitConsent, line 172, in fetchConfiguration: the answer to the request
\* of line 280 arrives (or the request fails).
SubmitConfigResponse(o, status, payload) ==
    /\ ops[o].kind = "submit" /\ ops[o].pc = "config"
    /\ ops' = [ops EXCEPT ![o].pc = "configured",
                          ![o].response = <<status, payload>>]
    /\ UNCHANGED <<ui, disk, loader, inits, identity>>
    /\ UNCHANGED notApp

\* submitConsent without line 175: no setLoading(false) before the early
\* return.
SubmitConfigurationKeepsLoading(o) ==
    LET id == fetchConfiguration(ops[o].response[1], ops[o].response[2],
                                 ops[o].projectId, ops[o].environment)
        next == [afterConfiguration(ops[o], id) EXCEPT !.response = <<>>]
    IN
    /\ ops[o].kind = "submit" /\ ops[o].pc = "configured"
    /\ IF id = Null
       THEN /\ ui' = ui
            /\ ops' = [ops EXCEPT ![o] = IdleOp]
       ELSE /\ ui' = [ui EXCEPT !.configId = id,
                                !.lastConsentToken =
                                    IF next.pc = "post" THEN next.token ELSE @]
            /\ ops' = [ops EXCEPT ![o] = next]
    /\ UNCHANGED <<disk, loader, inits, identity>>
    /\ UNCHANGED notApp

\* submitConsent, lines 172-178: fetchConfiguration returns.
SubmitConfiguration(o) ==
    LET id == fetchConfiguration(ops[o].response[1], ops[o].response[2],
                                 ops[o].projectId, ops[o].environment)
        next == [afterConfiguration(ops[o], id) EXCEPT !.response = <<>>]
    IN
    /\ ops[o].kind = "submit" /\ ops[o].pc = "configured"
    /\ IF id = Null
       THEN /\ ui' = [ui EXCEPT !.loading = FALSE]
            /\ ops' = [ops EXCEPT ![o] = IdleOp]
       ELSE /\ ui' = [ui EXCEPT !.configId = id,
                                !.lastConsentToken =
                                    IF next.pc = "post" THEN next.token ELSE @]
            /\ ops' = [ops EXCEPT ![o] = next]
    /\ UNCHANGED <<disk, loader, inits, identity>>
    /\ UNCHANGED notApp

\* submitConsent, lines 183-192: the token answer.
SubmitToken(o, outcome) ==
    LET token == fetchToken(outcome) IN
    /\ ops[o].kind = "submit" /\ ops[o].pc = "token"
    /\ IF token = Null
       THEN /\ ui' = [ui EXCEPT !.loading = FALSE]
            /\ ops' = [ops EXCEPT ![o] = IdleOp]
            /\ identity' = identity
       ELSE /\ ui' = [ui EXCEPT !.currentUserToken = token,
                                !.lastConsentToken = token]
            /\ ops' = [ops EXCEPT ![o].pc = "post", ![o].token = token]
            /\ identity' = token
    /\ UNCHANGED <<disk, loader, inits>>
    /\ UNCHANGED notApp

\* The failures the specification wants retried: 429, 5xx, no answer.
retryable(status) == status = NetFail \/ status = 429 \/ status >= 500

\* submitConsent, lines 226-238: the fetch of the consent POST resolves with
\* a status, or rejects.
SubmitResponse(o, status) ==
    /\ ops[o].kind = "submit" /\ ops[o].pc = "post"
    /\ ops' = [ops EXCEPT ![o].pc = "posted", ![o].response = <<status>>]
    /\ UNCHANGED <<ui, disk, loader, inits, identity>>
    /\ UNCHANGED notApp

\* submitConsent without the test of line 248: every answer is taken for a
\* saved consent.
SubmitDoneAnyStatus(o, body) ==
    /\ ops[o].kind = "submit" /\ ops[o].pc = "posted"
    /\ ui' = [ui EXCEPT !.consentStatus = "Custom Preferences",
                        !.lastConsentId = consentId(body),
                        !.loading = FALSE, !.modalVisible = FALSE]
    /\ ops' = [ops EXCEPT ![o] = IdleOp]
    /\ UNCHANGED <<disk, loader, inits, identity>>
    /\ UNCHANGED notApp

\* submitConsent, lines 240-274: the body is read and the answer handled; a
\* rejected fetch goes to the catch block; finally runs on every path.
SubmitDone(o, body) ==
    LET status == ops[o].response[1] IN
    /\ ops[o].kind = "submit" /\ ops[o].pc = "posted"
    /\ ui' = IF status # NetFail /\ (responseOk(status) \/ status = 201)
             THEN [ui EXCEPT !.consentStatus = "Custom Preferences",
                             !.lastConsentId = consentId(body),
                             !.loading = FALSE, !.modalVisible = FALSE]
             ELSE [ui EXCEPT !.loading = FALSE, !.modalVisible = FALSE]
    /\ ops' = [ops EXCEPT ![o] = IdleOp]
    /\ UNCHANGED <<disk, loader, inits, identity>>
    /\ UNCHANGED notApp

\* generateNewToken (398-400), button of lines 660-661.
GenerateNewToken ==
    /\ noModal /\ ~ui.loading
    /\ hasFree(ops)
    /\ ops' = [ops EXCEPT ![freeSlot(ops)] =
                  [IdleOp EXCEPT !.kind = "generate", !.pc = "token"]]
    /\ ui' = [ui EXCEPT !.loading = TRUE]
    /\ UNCHANGED <<disk, loader, inits, identity>>
    /\ UNCHANGED notApp

\* generateNewToken without line 402, setLastConsentToken(null).
GenerateDoneKeepsLastToken(o, outcome) ==
    LET token == fetchToken(outcome) IN
    /\ ops[o].kind = "generate" /\ ops[o].pc = "token"
    /\ ui' = IF token = Null THEN [ui EXCEPT !.loading = FALSE]
             ELSE [ui EXCEPT !.currentUserToken = token, !.loading = FALSE]
    /\ identity' = IF token # Null THEN token ELSE identity
    /\ ops' = [ops EXCEPT ![o] = IdleOp]
    /\ UNCHANGED <<disk, loader, inits>>
    /\ UNCHANGED notApp

\* generateNewToken, lines 401-417: the token answer.
GenerateDone(o, outcome) ==
    LET token == fetchToken(outcome) IN
    /\ ops[o].kind = "generate" /\ ops[o].pc = "token"
    /\ ui' = IF token = Null THEN [ui EXCEPT !.loading = FALSE]
             ELSE [ui EXCEPT !.currentUserToken = token,
                             !.lastConsentToken = Null, !.loading = FALSE]
    /\ identity' = IF token # Null THEN token ELSE identity
    /\ ops' = [ops EXCEPT ![o] = IdleOp]
    /\ UNCHANGED <<disk, loader, inits>>
    /\ UNCHANGED notApp

\* checkAuth (421-432), button of lines 652-653.
CheckAuth ==
    /\ noModal /\ ~ui.loading
    /\ hasFree(ops)
    /\ ops' = [ops EXCEPT ![freeSlot(ops)] =
                  [IdleOp EXCEPT !.kind = "auth", !.pc = "fetch"]]
    /\ ui' = [ui EXCEPT !.loading = TRUE]
    /\ UNCHANGED <<disk, loader, inits, identity>>
    /\ UNCHANGED notApp

\* checkAuth, lines 433-452: the answer is shown in an alert, whatever it
\* is; finally runs on every path.
CheckAuthDone(o, status) ==
    /\ ops[o].kind = "auth" /\ ops[o].pc = "fetch"
    /\ ui' = [ui EXCEPT !.loading = FALSE]
    /\ ops' = [ops EXCEPT ![o] = IdleOp]
    /\ UNCHANGED <<disk, loader, inits, identity>>
    /\ UNCHANGED notApp

\* checkConsentStatus (456-472), button of lines 644-645: without a
\* lastConsentToken it only shows "No consent has been submitted yet";
\* otherwise it asks for the configuration if the state holds none, else
\* reads the consent of lastConsentToken.
CheckConsentStatus ==
    /\ noModal /\ ~ui.loading
    /\ hasFree(ops)
    /\ IF ui.lastConsentToken = Null
       THEN UNCHANGED <<ui, ops>>
       ELSE /\ ui' = [ui EXCEPT !.loading = TRUE]
            /\ ops' = [ops EXCEPT ![freeSlot(ops)] =
                          [kind |-> "check",
                           pc |-> IF ui.configId = Null THEN "config"
                                  ELSE "read",
                           projectId |-> ui.projectId,
                           environment |-> ui.environment,
                           configId |-> ui.configId,
                           token |-> ui.lastConsentToken,
                           response |-> <<>>]]
    /\ UNCHANGED <<disk, loader, inits, identity>>
    /\ UNCHANGED notApp

\* checkConsentStatus, the answer it awaits: the configuration (472-477:
\* without an id the handler gives up) or the consent read (486-543, shown
\* in an alert; finally runs on every path).
CheckResponse(o, status, payload) ==
    LET id == fetchConfiguration(status, payload, ops[o].projectId,
                                 ops[o].environment) IN
    /\ ops[o].kind = "check"
    /\ IF ops[o].pc = "config" /\ id # Null
       THEN /\ ui' = [ui EXCEPT !.configId = id]
            /\ ops' = [ops EXCEPT ![o].pc = "read", ![o].configId = id]
       ELSE /\ ui' = [ui EXCEPT !.loading = FALSE]
            /\ ops' = [ops EXCEPT ![o] = IdleOp]
    /\ UNCHANGED <<disk, loader, inits, identity>>
    /\ UNCHANGED notApp

\* openSettings (547-551), button of lines 668-669.
OpenSettings ==
    /\ noModal /\ ~ui.loading
    /\ ui' = [ui EXCEPT !.tempProjectId = ui.projectId,
                        !.tempEnvironment = ui.environment,
                        !.settingsModalVisible = TRUE]
    /\ UNCHANGED <<disk, loader, inits, ops, identity>>
    /\ UNCHANGED notApp

\* The settings form: project id field (803), environment choice (817-818),
\* reset to defaults (591-607).
EditSettings(projectId, environment) ==
    /\ ui.settingsModalVisible /\ ~ui.loading
    /\ ui' = [ui EXCEPT !.tempProjectId = projectId,
                        !.tempEnvironment = environment]
    /\ UNCHANGED <<disk, loader, inits, ops, identity>>
    /\ UNCHANGED notApp

\* handleCancelSettings (584-588).
CancelSettings ==
    /\ ui.settingsModalVisible /\ ~ui.loading
    /\ ui' = [ui EXCEPT !.tempProjectId = ui.projectId,
                        !.tempEnvironment = ui.environment,
                        !.settingsModalVisible = FALSE]
    /\ UNCHANGED <<disk, loader, inits, ops, identity>>
    /\ UNCHANGED notApp

\* handleSaveSettings (554-563) up to the first storage write; an empty
\* project id is refused (556-559).
SaveSettings ==
    /\ ui.settingsModalVisible /\ ~ui.loading
    /\ hasFree(ops)
    /\ IF ui.tempProjectId = "" \/ trim(ui.tempProjectId) = ""
       THEN UNCHANGED <<ui, ops>>
       ELSE /\ ui' = [ui EXCEPT !.loading = TRUE]
            /\ ops' = [ops EXCEPT ![freeSlot(ops)] =
                          [IdleOp EXCEPT !.kind = "save", !.pc = "projectId",
                                         !.projectId = ui.tempProjectId,
                                         !.environment = ui.tempEnvironment]]
    /\ UNCHANGED <<disk, loader, inits, identity>>
    /\ UNCHANGED notApp

\* saveSettings, line 101: the project id is written, or the write throws.
SaveProjectId(o, storageOk) ==
    /\ ops[o].kind = "save" /\ ops[o].pc = "projectId"
    /\ IF storageOk
       THEN /\ disk' = [disk EXCEPT !.projectId = ops[o].projectId]
            /\ ops' = [ops EXCEPT ![o].pc = "environment"]
            /\ ui' = ui
       ELSE /\ disk' = disk
            /\ ops' = [ops EXCEPT ![o] = IdleOp]
            /\ ui' = [ui EXCEPT !.loading = FALSE]
    /\ UNCHANGED <<loader, inits, identity>>
    /\ UNCHANGED notApp

\* saveSettings, line 102, and handleSaveSettings, lines 564-580.
SaveEnvironment(o, storageOk) ==
    LET newUi ==
            IF storageOk
            THEN [ui EXCEPT !.projectId = ops[o].projectId,
                            !.environment = ops[o].environment,
                            !.settingsModalVisible = FALSE,
                            !.configId = Null, !.currentUserToken = Null,
                            !.lastConsentToken = Null, !.lastConsentId = Null,
                            !.consentStatus = "Not Set", !.loading = FALSE]
            ELSE [ui EXCEPT !.loading = FALSE]
    IN
    /\ ops[o].kind = "save" /\ ops[o].pc = "environment"
    /\ depsChanged(newUi) => hasFree(inits)
    /\ disk' = IF storageOk
               THEN [disk EXCEPT !.environment = ops[o].environment] ELSE disk
    /\ ui' = newUi
    /\ inits' = runEffect(newUi, inits)
    /\ ops' = [ops EXCEPT ![o] = IdleOp]
    /\ UNCHANGED <<loader, identity>>
    /\ UNCHANGED notApp

\* The app is killed and started again: component state and running calls
\* are gone, AsyncStorage stays, the mount effects run.
RestartApp ==
    /\ ui' = InitialUi
    /\ loader' = MountedLoader
    /\ inits' = MountedInits
    /\ ops' = [o \in OpIds |-> IdleOp]
    /\ UNCHANGED <<disk, identity>>
    /\ UNCHANGED notApp

NextApp ==
    \/ \E ok \in BOOLEAN : LoadProjectId(ok)
    \/ \E ok \in BOOLEAN : LoadEnvironment(ok)
    \/ \E i \in InitIds, r \in ConfigResponses :
          InitConfiguration(i, r[1], r[2])
    \/ \E i \in InitIds, v \in VendorOutcomes : InitVendors(i, v)
    \/ \E i \in InitIds, t \in TokenOutcomes : InitToken(i, t)
    \/ OpenConsentModal
    \/ CloseConsentModal
    \/ SubmitConsent
    \/ \E o \in OpIds, r \in ConfigResponses :
          SubmitConfigResponse(o, r[1], r[2])
    \/ \E o \in OpIds : SubmitConfiguration(o)
    \/ \E o \in OpIds, t \in TokenOutcomes : SubmitToken(o, t)
    \/ \E o \in OpIds, st \in Statuses : SubmitResponse(o, st)
    \/ \E o \in OpIds, b \in ConsentBodies : SubmitDone(o, b)
    \/ GenerateNewToken
    \/ \E o \in OpIds, t \in TokenOutcomes : GenerateDone(o, t)
    \/ CheckAuth
    \/ \E o \in OpIds, st \in Statuses : CheckAuthDone(o, st)
    \/ CheckConsentStatus
    \/ \E o \in OpIds, r \in ConfigResponses : CheckResponse(o, r[1], r[2])
    \/ OpenSettings
    \/ \E p \in ProjectIdInputs, e \in EnvironmentKeys : EditSettings(p, e)
    \/ CancelSettings
    \/ SaveSettings
    \/ \E o \in OpIds, ok \in BOOLEAN : SaveProjectId(o, ok)
    \/ \E o \in OpIds, ok \in BOOLEAN : SaveEnvironment(o, ok)
    \/ RestartApp

SpecApp == InitApp /\ [][NextApp]_vars

(***************************************************************************)
(* The vendor list of the demo (App.js 137-162, 304-363): fetchVendors as  *)
(* initializeApp calls it, and the switches of the consent modal, which    *)
(* are shown once vendorsLoading is false.                                 *)
(***************************************************************************)
\* Body of a vendors response: JSON with a vendors array (here the set of
\* its keys), JSON without one, or text that is not JSON.
VendorPayloads ==
    {<<"vendors", list>> : list \in SUBSET ServiceVendors}
        \cup {<<"novendors", {}>>, <<"text", {}>>}
VendorResponses ==
    {r \in Statuses \X VendorPayloads : r[1] = NetFail => r[2][1] = "text"}

\* Lines 344-349 and 353-358: a preference, false, for every key of VENDORS.
hardcodedPreferences == [keys |-> VENDORS, accepted |-> {}]

\* fetchVendors, line 305.
FetchVendors(c) ==
    /\ vendorCalls[c] = "idle"
    /\ \A c2 \in VendorCallIds : c2 < c => vendorCalls[c2] # "idle"
    /\ vendorCalls' = [vendorCalls EXCEPT ![c] = "fetch"]
    /\ vendorsLoading' = TRUE
    /\ UNCHANGED <<vendors, apiVendors>>
    /\ UNCHANGED notVendors

\* fetchVendors, lines 317-362: a 2xx with a vendors array replaces both
\* maps; a 2xx whose JSON has no such array changes neither; any other
\* status, a body that does not parse and a failed request set the
\* preferences to those of VENDORS.  finally: vendorsLoading false.
VendorsResponse(c, status, payload) ==
    LET ok == status # NetFail /\ responseOk(status) IN
    /\ vendorCalls[c] = "fetch"
    /\ IF ok /\ payload[1] = "vendors"
       THEN /\ apiVendors' = payload[2]
            /\ vendors' = [keys |-> payload[2], accepted |-> {}]
       ELSE IF ok /\ payload[1] = "novendors"
       THEN UNCHANGED <<vendors, apiVendors>>
       ELSE /\ vendors' = hardcodedPreferences
            /\ apiVendors' = apiVendors
    /\ vendorsLoading' = FALSE
    /\ vendorCalls' = [vendorCalls EXCEPT ![c] = "idle"]
    /\ UNCHANGED notVendors

\* toggleVendor (138-143), from a switch of the modal (742-745): the key
\* gets the negation of its preference, true when it had none.
toggleVendor(vendorKey) ==
    /\ ~vendorsLoading
    /\ vendorKey \in apiVendors
    /\ vendors' = [keys |-> vendors.keys \cup {vendorKey},
                   accepted |-> IF vendorKey \in vendors.accepted
                                THEN vendors.accepted \ {vendorKey}
                                ELSE vendors.accepted \cup {vendorKey}]
    /\ UNCHANGED <<apiVendors, vendorsLoading, vendorCalls>>
    /\ UNCHANGED notVendors

\* acceptAll (146-152), button of line 754.
acceptAll ==
    /\ ~vendorsLoading
    /\ vendors' = [keys |-> apiVendors, accepted |-> apiVendors]
    /\ UNCHANGED <<apiVendors, vendorsLoading, vendorCalls>>
    /\ UNCHANGED notVendors

\* rejectAll (155-161), button of line 757.
rejectAll ==
    /\ ~vendorsLoading
    /\ vendors' = [keys |-> apiVendors, accepted |-> {}]
    /\ UNCHANGED <<apiVendors, vendorsLoading, vendorCalls>>
    /\ UNCHANGED notVendors

NextVendorList ==
    \/ \E c \in VendorCallIds : FetchVendors(c)
    \/ \E c \in VendorCallIds, r \in VendorResponses :
          VendorsResponse(c, r[1], r[2])
    \/ \E k \in VENDORS \cup ServiceVendors : toggleVendor(k)
    \/ acceptAll
    \/ rejectAll

SpecVendors == InitVendorList /\ [][NextVendorList]_vars

\* C13: when the vendor fetch fails, the vendor list is empty: the vendors
\* listed and given a preference are vendors the service returned, never
\* substitutes.
C13_NoSubstitutedVendors ==
    ~vendorsLoading => (apiVendors \cup vendors.keys) \subseteq ServiceVendors

(***************************************************************************)
(* Claims about the demo app, checked under SpecApp.                       *)
(***************************************************************************)
\* The step is a restart of the app: every running call is gone and the
\* component is mounted anew.
restarted ==
    /\ ui' = InitialUi
    /\ loader' = MountedLoader
    /\ inits' = MountedInits
    /\ ops' = [o \in OpIds |-> IdleOp]

\* C9: the user token is stable: once the app holds a token, resolving the
\* token again (re-initialisation, restart, settings change) gives the same
\* token; it changes only when the user regenerates it (generateNewToken).
C9_TokenStable ==
    [][(identity # Null /\ identity' # identity)
         => \E o \in OpIds : /\ ops[o].kind = "generate"
                             /\ ops'[o].kind = "none"]_vars

\* C10: a submission that ends in a retryable failure (429, 5xx, no answer)
\* leaves the decision in the retry queue.
C10_RetryableFailureQueued ==
    [][\A o \in OpIds :
         (ops[o].kind = "submit" /\ ops[o].pc = "posted"
             /\ retryable(ops[o].response[1])
             /\ ops'[o] # ops[o] /\ ~restarted)
         => Len(getQueue') > Len(getQueue)]_vars

\* The answer the configuration request of a submission got does not yield
\* a configuration id: no answer, a status that is not 2xx, or a body without
\* defaultConfigId.
configUnavailable(op) ==
    \/ op.response[1] = NetFail
    \/ ~responseOk(op.response[1])
    \/ op.response[2] # "id"

\* C12: configuration resolution fails exactly when the remote call errors
\* or its payload has no defaultConfigId; then no configId is stored and the
\* submission that needed it ends without being transmitted; otherwise the
\* service's defaultConfigId is stored and the submission goes on.
C12_ConfigUnavailable ==
    [][\A o \in OpIds :
         (ops[o].kind = "submit" /\ ops[o].pc = "configured"
             /\ ops'[o] # ops[o] /\ ~restarted)
         => IF configUnavailable(ops[o])
            THEN /\ ops'[o] = IdleOp
                 /\ ui'.configId = ui.configId
            ELSE /\ ops'[o].pc \in {"token", "post"}
                 /\ ops'[o].configId =
                        defaultConfigId(ops[o].projectId, ops[o].environment)
                 /\ ui'.configId = ops'[o].configId]_vars

\* A submission that needed the configuration got an answer without one.
C12_Witness ==
    \E o \in OpIds :
        /\ ops[o].kind = "submit" /\ ops[o].pc = "configured"
        /\ configUnavailable(ops[o])
        /\ ui.configId = Null

\* C14: a submission is never aborted for lack of a token: when the token
\* service gives none, a token is generated locally and the consent is sent.
C14_SubmissionNotAbortedWithoutToken ==
    [][\A o \in OpIds :
         (ops[o].kind = "submit" /\ ops[o].pc = "token"
             /\ ops'[o] # ops[o] /\ ~restarted)
         => (ops'[o].pc = "post" /\ ops'[o].token # Null)]_vars

C17_RefusedTokenDeleted ==
    [][(request.pc = "fetch" /\ request'.pc = "idle"
          /\ lastResult'.name = "AuthenticationError")
         => (keychain' = "none" /\ authRequired')]_vars

\* C20: no consent request is transmitted unless the configuration id and
\* the user token have been resolved: a submission asks for the token only
\* once it has the configuration id, and posts only once it has both.
C20_ResolvedBeforeTransmission ==
    \A o \in OpIds :
        ops[o].kind = "submit"
        => /\ ops[o].pc \in {"token", "post", "posted"}
                => ops[o].configId # Null
           /\ ops[o].pc \in {"post", "posted"} => ops[o].token # Null

\* A submission that started without a token has fetched one and posts.
C20_Witness ==
    \E o \in OpIds :
        /\ ops[o].kind = "submit" /\ ops[o].pc = "post"
        /\ ops[o].token = identity
        /\ \A i \in InitIds : inits[i].pc = "token"

\* C11: what the app presents as the record id of a confirmed consent is an
\* id the service assigned; the synthesized marker 'saved' is never shown
\* as one.
C11_MarkerNeverShownAsId ==
    \A shown \in ServerIds \cup {"saved"} :
        statusCardId = <<shown>> => shown \in ServerIds

(***************************************************************************)
(* Observations on the queue.                                              *)
(***************************************************************************)
idsOf(queue) == {queue[i].id : i \in 1..Len(queue)}

inStorage(id) == id \in idsOf(getQueue)

\* The entry is in the hands of a running processQueue that can still write
\* it back: not yet submitted, pushed to failedItems, waiting on its retry
\* timer, or part of the payload about to be written.
heldByDrain(id) ==
    \E d \in DrainIds :
        \/ /\ drains[d].pc = "await"
           /\ \/ \E i \in drains[d].idx..Len(drains[d].queue) :
                    drains[d].queue[i].id = id
              \/ id \in idsOf(drains[d].failedItems)
              \/ \E t \in timers : t.d = d /\ t.item.id = id
        \/ /\ drains[d].pc = "write"
           /\ id \in idsOf(parse(drains[d].payload))

\* The consent (identity token) of the request a processQueue has in flight.
submitting(d) == drains[d].queue[drains[d].idx].consent

(***************************************************************************)
(* Claims checked under Spec.                                              *)
(***************************************************************************)

\* C1: no consent handed to the queue is silently dropped: every id whose
\* enqueue() resolved is confirmed by the server, still in the stored queue
\* (or held by a running processQueue that can still write it back), or was
\* permanently rejected.  The code keeps no dead-letter list (part_006 800),
\* so that alternative has no members.
C1_NoSilentDrop ==
    \A id \in handed :
        id \in accepted \/ inStorage(id) \/ heldByDrain(id) \/ id \in rejected

\* C16: a queued consent is eventually synced.  A decision that is gone
\* from the stored queue is never read by a later processQueue, so it can
\* reach Confirmed only if it leaves the queue by being confirmed: a
\* decision leaves the stored queue only once the server has accepted it
\* (or refused it for good).
C16_QueuedUntilSynced ==
    [][\A id \in Ids :
         (inStorage(id) /\ ~inStorage(id)')
         => (id \in accepted' \/ id \in rejected')]_vars

\* C18: when an enqueue call writes, the stored queue becomes the queue
\* that was stored until then followed by the call's entry with retryCount
\* 0: one entry per call, none of the earlier ones lost.
C18_EnqueueAppends ==
    [][\A e \in EnqIds :
         (enqs[e].pc = "write" /\ enqs'[e].pc = "idle" /\ storage' # storage)
         => /\ Len(getQueue') = Len(getQueue) + 1
            /\ \A i \in 1..Len(getQueue) : getQueue'[i] = getQueue[i]
            /\ getQueue'[Len(getQueue')].retryCount = 0
            /\ getQueue'[Len(getQueue')].id \in handed' \ handed]_vars

\* The retryCount values the program holds for an entry: in the stored
\* queue, in the arrays of running processQueue and enqueue calls, and in
\* the closures of pending retry timers.
countsOf(queue, id) ==
    {queue[i].retryCount : i \in {j \in 1..Len(queue) : queue[j].id = id}}

retryCounts(id) ==
    countsOf(getQueue, id)
        \cup UNION {countsOf(drains[d].queue, id) : d \in DrainIds}
        \cup UNION {countsOf(drains[d].failedItems, id) : d \in DrainIds}
        \cup UNION {countsOf(enqs[e].queue, id) : e \in EnqIds}
        \cup {t.item.retryCount : t \in {u \in timers : u.item.id = id}}

\* The number of failed attempts counted for an entry so far.
attemptCount(id) ==
    CHOOSE n \in retryCounts(id) : \A k \in retryCounts(id) : k <= n

\* C19: the attempt count of a decision never decreases, whatever is done
\* (enqueue, drain, restart), and never exceeds maxRetries.
C19_AttemptCountMonotone ==
    [][\A id \in Ids :
         (retryCounts(id) # {} /\ retryCounts(id)' # {})
         => /\ attemptCount(id)' >= attemptCount(id)
            /\ \A i \in 1..Len(getQueue) :
                   getQueue[i].id = id
                     => attemptCount(id) <= getQueue[i].maxRetries]_vars

\* C2: at most one submission per identity token is in flight at any time.
C2_OneSubmittingPerToken ==
    \A d1, d2 \in DrainIds :
        (d1 # d2 /\ drains[d1].pc = "await" /\ drains[d2].pc = "await")
            => submitting(d1) # submitting(d2)

\* C3: a submission whose transport call returns a 2xx leaves the decision
\* confirmed and out of the queue: the 2xx is not counted as a failed attempt,
\* no retry is scheduled for it, and no pass writes a confirmed decision
\* back to the stored queue.
C3_ConfirmedLeavesQueue ==
    [][(\A d \in DrainIds, b \in Bodies :
            DrainResponse(d, 201, b) =>
                /\ \A t \in timers' :
                       t.item.id = drains[d].queue[drains[d].idx].id
                           => t \in timers
                /\ drains'[d].queue = drains[d].queue)
       /\ (\A d \in DrainIds :
            DrainWrite(d) => \A id \in accepted : ~inStorage(id)')]_vars

\* C4: a decision whose first submission fails with a 5xx, a network error
\* or a timeout is, once the pass has written the queue, in the queue with
\* attemptCount 1.
C4_FirstFailureQueued ==
    [][\A d \in DrainIds :
          DrainWrite(d) =>
              \A i \in 1..Len(drains[d].queue) :
                  LET item == drains[d].queue[i] IN
                  (item.retryCount = 1 /\ item.id \notin accepted \cup rejected)
                      => \E j \in 1..Len(getQueue') :
                             /\ getQueue'[j].id = item.id
                             /\ getQueue'[j].retryCount = 1]_vars

\* C5: with maxRetries = 5, a decision stays scheduled for retry until its
\* 5th failure: every failed attempt that brings attemptCount to less than 5
\* schedules a retry of the decision.
C5_RetriedUntilFifthFailure ==
    [][\A d \in DrainIds, s \in Statuses, b \in Bodies :
          (/\ DrainResponse(d, s, b)
           /\ makeRequest(s, b, connected) # "ok"
           /\ drains[d].queue[drains[d].idx].retryCount + 1 < 5)
              => \E t \in timers' :
                     /\ t.d = d
                     /\ t.item.id = drains[d].queue[drains[d].idx].id
                     /\ t.item.retryCount =
                            drains[d].queue[drains[d].idx].retryCount + 1]_vars

\* C6: a permanent rejection (401, or a 4xx other than 429) is never
\* retried: no pass writes a decision the server rejected back to the queue.
C6_RejectionNotRequeued ==
    [][\A d \in DrainIds :
          DrainWrite(d) => \A id \in rejected : ~inStorage(id)']_vars

\* C8: a restart keeps the queue, its order, every attemptCount and every
\* pending retry time of a stored entry.
C8_RestartKeepsSchedule ==
    [][Restart =>
          /\ getQueue' = getQueue
          /\ \A t \in timers :
                inStorage(t.item.id) =>
                    \E u \in timers' :
                        u.item.id = t.item.id /\ u.due = t.due]_vars

(***************************************************************************)
(* Claims checked under SpecAuth.                                          *)
(***************************************************************************)

\* C7: when a 429 response carries a retry hint, the retry is scheduled with
\* the hint that was read from the response.
C7_RetryHintUsed ==
    (reaction.action = "scheduleRetry" /\ lastResult.message # <<>>)
        => reaction.arg = lastResult.message

(***************************************************************************)
(* The drain pass and its schedule, checked under Spec.                    *)
(***************************************************************************)
\* A processQueue invocation that has read the queue and not yet returned.
inProgress(d) == drains[d].pc # "idle"

\* C21: the drain pass is non-reentrant: no drain is in progress while
\* another one is, so no queue entry is in the hands of two overlapping
\* passes.
C21_DrainNonReentrant ==
    \A d1, d2 \in DrainIds :
        (inProgress(d1) /\ inProgress(d2)) => d1 = d2

\* The retry times the program holds for an entry: the moments its pending
\* retry timers are due (part_006 796-798).
nextRetryAt(id) == {t.due : t \in {u \in timers : u.item.id = id}}

\* processQueue d issues the request for an entry in this step.
submits(d) ==
    /\ drains'[d].pc = "await"
    /\ drains[d].pc # "await" \/ drains'[d].idx # drains[d].idx

\* C22: a drain pass submits only entries whose retry time has come, and
\* an entry whose retry time is still in the future is not submitted in that
\* pass and stays in the stored queue: the pass's write keeps it.
C22_OnlyDueEntriesSubmitted ==
    [][\A d \in DrainIds :
          /\ submits(d) =>
                \A due \in nextRetryAt(drains'[d].queue[drains'[d].idx].id) :
                    due <= now
          /\ DrainWrite(d) =>
                \A id \in idsOf(getQueue) :
                    (\E due \in nextRetryAt(id) : due > now)
                        => inStorage(id)']_vars

\* The base of the delay (1000 ms, in seconds) and the largest exponent a
\* scheduled retry can have: retryCount < maxRetries = 3 at line 793.
backoffBase == 1
backoffCap == 2

C30_EnqueuedDuringDrainKept ==
    [][\A d \in DrainIds :
          DrainWrite(d) =>
              \A id \in idsOf(getQueue) \ idsOf(drains[d].queue) :
                  inStorage(id)']_vars

(***************************************************************************)
(* The vendor list and its preferences, checked under SpecVendors.         *)
(***************************************************************************)
\* C29: whenever fetchVendors has completed (vendorsLoading is false), the
\* keys of the vendors preference map are the keys of apiVendors: every
\* displayed vendor has a preference and every preference is for a
\* displayed vendor.
C29_PreferencesMatchVendors ==
    ~vendorsLoading => vendors.keys = apiVendors

(***************************************************************************)
(* The handlers of the demo app and the loading flag, checked under        *)
(* SpecApp.                                                                *)
(***************************************************************************)
\* A handler that set loading to true has not returned yet.
running(o) == ops[o].pc # "idle"

\* A network or storage call a running handler awaits resolves or rejects,
\* and the handler runs on to its next await or to its end.
HandlerStep ==
    \/ \E o \in OpIds, r \in ConfigResponses :
          SubmitConfigResponse(o, r[1], r[2])
    \/ \E o \in OpIds : SubmitConfiguration(o)
    \/ \E o \in OpIds, t \in TokenOutcomes : SubmitToken(o, t)
    \/ \E o \in OpIds, st \in Statuses : SubmitResponse(o, st)
    \/ \E o \in OpIds, b \in ConsentBodies : SubmitDone(o, b)
    \/ \E o \in OpIds, t \in TokenOutcomes : GenerateDone(o, t)
    \/ \E o \in OpIds, st \in Statuses : CheckAuthDone(o, st)
    \/ \E o \in OpIds, r \in ConfigResponses : CheckResponse(o, r[1], r[2])
    \/ \E o \in OpIds, ok \in BOOLEAN : SaveProjectId(o, ok)
    \/ \E o \in OpIds, ok \in BOOLEAN : SaveEnvironment(o, ok)

\* The most awaits a handler still has before it returns.
awaitsLeft(op) ==
    IF op.pc = "idle" THEN 0
    ELSE IF op.kind = "submit"
    THEN (IF op.pc = "config" THEN 5 ELSE IF op.pc = "configured" THEN 4
          ELSE IF op.pc = "token" THEN 3 ELSE IF op.pc = "post" THEN 2 ELSE 1)
    ELSE IF op.kind = "check" THEN (IF op.pc = "config" THEN 2 ELSE 1)
    ELSE IF op.kind = "save" THEN (IF op.pc = "projectId" THEN 2 ELSE 1)
    ELSE 1

\* C24: every handler that sets loading to true sets it back to false on
\* every path by which it completes, and loading is eventually false after
\* such a handler was started if each network or storage call resolves or
\* rejects in the end: loading is true exactly while a handler is running,
\* and only one is; the call a running handler awaits can always be
\* answered; and every answer leaves the handler with fewer awaits before
\* its end.
C24_LoadingSetBack ==
    /\ [](ui.loading <=> \E o \in OpIds : running(o))
    /\ [](\A o1, o2 \in OpIds : (running(o1) /\ running(o2)) => o1 = o2)
    /\ []((\E o \in OpIds : running(o)) => ENABLED HandlerStep)
    /\ [][\A o \in OpIds :
            (running(o) /\ ops'[o] # ops[o])
                => awaitsLeft(ops'[o]) < awaitsLeft(ops[o])]_vars

\* A submission that went as far as its POST has completed along one of its
\* paths and loading is false again.
C24_Witness ==
    /\ ui.lastConsentToken # Null
    /\ ~ui.loading
    /\ \A o \in OpIds : ~running(o)

(***************************************************************************)
(* Settings and what the state holds for them, checked under SpecApp.      *)
(***************************************************************************)
\* initializeApp i stores an answer in this step: the configuration id
\* (line 292) or the token (line 124).
stores(i) ==
    /\ inits[i].pc \in {"config", "token"}
    /\ inits'[i] # inits[i]
    /\ ~restarted
    /\ \/ ui'.configId # ui.configId
       \/ ui'.currentUserToken # ui.currentUserToken

\* C25: a configId or currentUserToken held in state was obtained for the
\* currently selected projectId and environment: the answer to a request
\* issued under earlier settings is never stored once handleSaveSettings has
\* switched them and reset those fields.
C25_NoStaleAnswerStored ==
    [][\A i \in InitIds :
          stores(i) =>
              /\ inits[i].projectId = ui.projectId
              /\ inits[i].environment = ui.environment
              /\ ui'.configId \in
                     {Null, defaultConfigId(ui'.projectId, ui'.environment)}]_vars

\* What loadSettings (78-96) gives the app after a restart: the stored
\* value when there is one (and, for the environment, when it is a key of
\* ENVIRONMENTS), else the default of useState (lines 62-63).
restoredProjectId ==
    IF disk.projectId # Null THEN disk.projectId ELSE DEFAULT_PROJECT_ID

restoredEnvironment ==
    IF disk.environment # Null /\ disk.environment \in EnvironmentKeys
    THEN disk.environment
    ELSE DEFAULT_ENVIRONMENT

\* handleSaveSettings o returns in this step.
saveCompletes(o) ==
    /\ ops[o].kind = "save"
    /\ ops'[o] = IdleOp
    /\ ~restarted

\* C26: persisted settings and in-memory settings do not diverge: when
\* handleSaveSettings completes, by success or by a failed storage write, a
\* restart restores exactly the projectId and environment the app holds.  (A
\* save whose first write fails has written nothing: it is held to this
\* when the two agreed before.)
C26_SavedSettingsMatchState ==
    [][\A o \in OpIds :
          (/\ saveCompletes(o)
           /\ ops[o].pc = "projectId"
                  => /\ restoredProjectId = ui.projectId
                     /\ restoredEnvironment = ui.environment)
          => /\ restoredProjectId' = ui'.projectId
             /\ restoredEnvironment' = ui'.environment]_vars

(***************************************************************************)
(* What the state records of a consent submission, checked under SpecApp.  *)
(***************************************************************************)
\* C27: lastConsentToken is non-null only if a consent submission carrying
\* it received a 2xx since the last settings change or token regeneration,
\* so that checkConsentStatus queries the service only when a consent was
\* saved: once no handler is running, a lastConsentToken comes with the
\* record of a saved consent, and a consent read is only ever under way
\* when there is one.
C27_LastTokenMeansSaved ==
    /\ (ui.lastConsentToken # Null /\ ~ui.loading) => ui.lastConsentId # Null
    /\ \A o \in OpIds : ops[o].kind = "check" => ui.lastConsentId # Null

\* The consent POST of submitConsent o got a 2xx and the handler returns.
savedBy(o) ==
    /\ ops[o].kind = "submit" /\ ops[o].pc = "posted"
    /\ ops'[o] = IdleOp
    /\ ops[o].response[1] # NetFail /\ responseOk(ops[o].response[1])

\* handleSaveSettings o returns after both writes succeeded: only then the
\* settings modal is closed (line 565).
settingsSavedBy(o) ==
    /\ ops[o].kind = "save" /\ ops[o].pc = "environment"
    /\ ops'[o] = IdleOp
    /\ ~ui'.settingsModalVisible

\* C28: consentStatus leaves "Not Set" and lastConsentId becomes non-null
\* only as the result of a consent POST that returned a 2xx; a non-2xx
\* answer, a network error or an aborted submission leaves both unchanged,
\* and a successful settings save resets both to their initial values.
C28_StatusOnlyFromSavedConsent ==
    [][~restarted =>
         /\ (\/ ui'.consentStatus # ui.consentStatus
             \/ ui'.lastConsentId # ui.lastConsentId)
                => \/ \E o \in OpIds :
                         /\ savedBy(o)
                         /\ ui'.consentStatus # "Not Set"
                         /\ ui'.lastConsentId # Null
                   \/ \E o \in OpIds : settingsSavedBy(o)
         /\ \A o \in OpIds :
                settingsSavedBy(o) => /\ ui'.consentStatus = "Not Set"
                                      /\ ui'.lastConsentId = Null]_vars

\* A consent POST returned a 2xx with an id in its body and submitConsent
\* has returned: the status and the id are set.
C28_Witness ==
    /\ ui.consentStatus = "Custom Preferences"
    /\ ui.lastConsentId = "abc"
    /\ ~ui.loading

====
